---- MODULE Spec2Model ----
(***************************************************************************)
(* Model of the authoritative game server of src/server.py: the accept     *)
(* loop (main), one ingestion thread per connection (handle_client), the   *)
(* fixed-tick simulation (game_loop, check_bullet_collisions) and the      *)
(* broadcast (broadcast_game_state), all sharing players, bullets and the  *)
(* connection registry under one lock.                                     *)
(*                                                                         *)
(* Coordinates are integers (the claims do not depend on rounding).  A     *)
(* message field that is not a number is modelled by the tag vt of the     *)
(* message ("num", "str", "none") and of the bullet built from it.         *)
(***************************************************************************)
EXTENDS Integers, Sequences, FiniteSets, TLC

\* ---------------------------------------------------------------- constants
MAX_PLAYERS == 5
GAME_DURATION == 300
START_THRESHOLD == 4
BULLET_SPEED == 10
DAMAGE == 25
FULL_HEALTH == 100
ARENA_W == 800
ARENA_H == 600
BULLET_HALF == 4
PLAYER_HALF == 10
SPAWN_X == 400
SPAWN_Y == 300
\* game_start_time = None
NoTime == -1
\* a player_id local that holds no player (connection refused or not yet accepted)
NoPid == -1

\* ------------------------------------------------------------------- bounds
\* connections the server accepts in a run of Spec
MaxConns == 2
\* connections the server accepts in a run of SpecCombat
MaxCombatConns == 3
\* connections the server accepts in a run of SpecAdmit
MaxAdmitConns == 6
\* connections of a run of SpecLive
MaxLiveConns == 3
\* connections of a run of SpecDuel
MaxDuelConns == 2
\* connections of a run of SpecTick
MaxTickConns == 1
\* connections of a run of SpecClock
MaxClockConns == 5
\* seconds per time.sleep in a run of SpecClock, and the last reading of the clock
ClockQuantum == 100
MaxNow == 600
\* longest live bullet list a shoot intent may still extend
MaxBullets == 2
\* largest player x coordinate a move intent may produce
MaxCoord == 810

VARIABLES
    players,             \* dict player_id -> [pos, color, health, kills, is_dead]
    bullets,             \* list of [x, y, dx, dy, owner_id, vt]
    next_player_id,
    client_sockets,      \* list of connections
    player_connections,  \* dict player_id -> connection
    game_start_time,
    lock,                \* "free", "tick" (game_loop) or "client" (a handle_client thread)
    holder,              \* the connection whose thread holds the lock, 0 otherwise
    now,                 \* time.time()
    main_pc, main_conn, main_pid,    \* the accept loop and its locals
    next_conn,           \* connections accepted so far (identity of the next socket)
    conn_cap,            \* connections this run accepts
    quantum,             \* seconds time.time() advances over one time.sleep of this run
    sent,                \* the time_left of the last snapshot broadcast, and whether
                         \* the session clock had started by then
    peer,                \* per connection: the client's end, "none" | "open" | "closed"
    thread,              \* per connection: [st, player_id] of its handle_client thread
    msgs,                \* per connection: one-shot messages sent, [full, handshake]
    tick_pc, ci, surviving_bullets,  \* game_loop and the collision loop's locals
    tick_world,          \* the world when the running tick took the lock
    ev                   \* the operation that produced the current state: a
                         \* broadcast carries game_state, the sockets sendall
                         \* was called on and the world its tick started from

vars == <<players, bullets, next_player_id, client_sockets, player_connections,
          game_start_time, lock, holder, now, main_pc, main_conn, main_pid, next_conn,
          conn_cap, quantum, sent, peer, thread, msgs, tick_pc, ci, surviving_bullets,
          tick_world, ev>>

worldVars == <<players, bullets>>
registryVars == <<client_sockets, player_connections>>
mainVars == <<main_pc, main_conn, main_pid, next_conn, next_player_id, game_start_time>>
tickVars == <<tick_pc, ci, surviving_bullets, tick_world>>
connVars == <<peer, thread, msgs>>


\* ------------------------------------------------------------------ helpers
Min(S) == CHOOSE x \in S : \A y \in S : x <= y

RECURSIVE SortedSeq(_)
SortedSeq(S) == IF S = {} THEN <<>> ELSE <<Min(S)>> \o SortedSeq(S \ {Min(S)})

\* list(players.items()): a dict enumerates in insertion order, and keys are
\* inserted once each in increasing next_player_id order
items(ps) == SortedSeq(DOMAIN ps)

DictDel(d, k) == [q \in (DOMAIN d) \ {k} |-> d[q]]
DictSet(d, k, v) == [q \in (DOMAIN d) \cup {k} |-> IF q = k THEN v ELSE d[q]]

RECURSIVE ListRemove(_, _)
\* list.remove(x): drops the first occurrence
ListRemove(s, x) ==
    IF s = <<>> THEN <<>>
    ELSE IF Head(s) = x THEN Tail(s)
    ELSE <<Head(s)>> \o ListRemove(Tail(s), x)

InList(s, x) == \E i \in 1..Len(s) : s[i] = x

\* the connections of a run
Conns == DOMAIN thread

\* the interpreter is alive: an uncaught exception in the main thread ends the
\* process, and with it the daemon threads
ProcessAlive == main_pc # "dead"

\* a lock that excludes nobody
LockIgnored == TRUE

LockFree == lock = "free"

\* --------------------------------------------------------------------- Init
NewPlayer == [pos |-> <<SPAWN_X, SPAWN_Y>>, color |-> <<50, 50, 50>>,
              health |-> FULL_HEALTH, kills |-> 0, is_dead |-> FALSE]

EmptyWorld == [players |-> <<>>, bullets |-> <<>>]

InitAt(cap, q) ==
    /\ players = <<>>
    /\ bullets = <<>>
    /\ next_player_id = 0
    /\ client_sockets = <<>>
    /\ player_connections = <<>>
    /\ game_start_time = NoTime
    /\ lock = "free"
    /\ holder = 0
    /\ now = 0
    /\ main_pc = "accept"
    /\ main_conn = 0
    /\ main_pid = NoPid
    /\ next_conn = 0
    /\ conn_cap = cap
    /\ quantum = q
    /\ sent = [time_left |-> NoTime, started |-> FALSE]
    /\ peer = [c \in 1..cap |-> "none"]
    /\ thread = [c \in 1..cap |-> [st |-> "none", player_id |-> NoPid]]
    /\ msgs = [c \in 1..cap |-> [full |-> 0, handshake |-> 0]]
    /\ tick_pc = "sleep"
    /\ ci = 0
    /\ surviving_bullets = <<>>
    /\ tick_world = EmptyWorld
    /\ ev = [op |-> "init"]

\* a run in which the clock is not observed to advance
InitWith(cap) == InitAt(cap, 0)

\* -------------------------------------------------------------- main thread
\* a capacity test that lets one player too many in
ServerFullOffByOne == Cardinality(DOMAIN players) > MAX_PLAYERS

\* len(players) >= MAX_PLAYERS
ServerFull == Cardinality(DOMAIN players) >= MAX_PLAYERS

\* a timer that is set again by every admission at or above the threshold
TimerRestart(n) == IF n >= START_THRESHOLD THEN now ELSE game_start_time

TimerStart(n) == IF game_start_time = NoTime /\ n >= START_THRESHOLD
                 THEN now ELSE game_start_time

\* main, the capacity branch: server_full is sent under the lock and the
\* connection closed; sendall raises when the client is already gone (fails)
Reject(gone, fails) ==
    /\ ProcessAlive /\ main_pc = "accept" /\ LockFree
    /\ next_conn < conn_cap
    /\ ServerFull
    /\ fails => gone
    /\ next_conn' = next_conn + 1
    /\ main_conn' = next_conn + 1
    /\ peer' = [peer EXCEPT ![next_conn + 1] = "closed"]
    /\ IF fails
       THEN /\ main_pc' = "dead"
            /\ msgs' = msgs
            /\ ev' = [op |-> "reject_raised"]
       ELSE /\ main_pc' = "accept"
            /\ msgs' = [msgs EXCEPT ![next_conn + 1].full = @ + 1]
            /\ ev' = [op |-> "reject"]
    /\ UNCHANGED <<worldVars, registryVars, main_pid, next_player_id,
                   game_start_time, lock, holder, now, conn_cap, quantum, sent, thread, tickVars>>

\* main, the admission branch, one critical section
Admit ==
    /\ ProcessAlive /\ main_pc = "accept" /\ LockFree
    /\ next_conn < conn_cap
    /\ ~ServerFull
    /\ next_conn' = next_conn + 1
    /\ main_conn' = next_conn + 1
    /\ main_pid' = next_player_id
    /\ next_player_id' = next_player_id + 1
    /\ players' = DictSet(players, next_player_id, NewPlayer)
    /\ client_sockets' = Append(client_sockets, next_conn + 1)
    /\ player_connections' = DictSet(player_connections, next_player_id, next_conn + 1)
    /\ game_start_time' = TimerStart(Cardinality(DOMAIN players) + 1)
    /\ peer' = [peer EXCEPT ![next_conn + 1] = "open"]
    /\ main_pc' = "handshake"
    /\ ev' = [op |-> "admit"]
    /\ UNCHANGED <<bullets, lock, holder, now, conn_cap, quantum, sent, thread, msgs, tickVars>>

\* main: conn.sendall(handshake), outside the lock and unguarded
Handshake(fails) ==
    /\ ProcessAlive /\ main_pc = "handshake"
    /\ fails => peer[main_conn] = "closed"
    /\ IF fails
       THEN /\ main_pc' = "dead"
            /\ msgs' = msgs
            /\ ev' = [op |-> "handshake_raised"]
       ELSE /\ main_pc' = "start"
            /\ msgs' = [msgs EXCEPT ![main_conn].handshake = @ + 1]
            /\ ev' = [op |-> "handshake"]
    /\ UNCHANGED <<worldVars, registryVars, main_conn, main_pid, next_conn,
                   next_player_id, game_start_time, lock, holder, now, conn_cap, quantum, sent, peer,
                   thread, tickVars>>

\* main: threading.Thread(target=handle_client, ...).start()
StartThread ==
    /\ ProcessAlive /\ main_pc = "start"
    /\ thread' = [thread EXCEPT ![main_conn] = [st |-> "running", player_id |-> main_pid]]
    /\ main_pc' = "accept"
    /\ ev' = [op |-> "start"]
    /\ UNCHANGED <<worldVars, registryVars, main_conn, main_pid, next_conn,
                   next_player_id, game_start_time, lock, holder, now, conn_cap, quantum, sent, peer,
                   msgs, tickVars>>

\* ------------------------------------------------------------ the client end
\* the client closes, crashes or loses its connection
PeerClose(c) ==
    /\ ProcessAlive
    /\ peer[c] = "open"
    /\ \/ thread[c].st = "running"
       \/ main_conn = c /\ main_pc \in {"handshake", "start"}
    /\ peer' = [peer EXCEPT ![c] = "closed"]
    /\ ev' = [op |-> "peer_close"]
    /\ UNCHANGED <<worldVars, registryVars, mainVars, lock, holder, now, conn_cap, quantum, sent,
                   thread, msgs, tickVars>>

\* ------------------------------------------------------------ handle_client
\* what conn.recv hands to pickle.loads: bytes that do not decode, a value
\* that is no dict, or a dict with action, player_id, dx, dy
\* The inputs of a run: the server validates neither the delta of a move nor
\* the direction of a shoot, so both are whatever the client sent.
Deltas == {<<410, 0>>}
Dirs == {<<40, 0>>}
Movers == {0, 1}
Shooters == {0, 1, 2}
\* an id the server never assigns in a run
UnknownPid == MAX_PLAYERS + MaxAdmitConns
WellTyped ==
    [action : {"move"}, player_id : Movers \cup {UnknownPid}, d : Deltas, vt : {"num"}]
    \cup [action : {"shoot"}, player_id : Shooters \cup {UnknownPid}, d : Dirs, vt : {"num"}]
Malformed ==
    [action : {"move", "shoot"}, player_id : Shooters, d : {<<0, 0>>},
     vt : {"str", "none"}]

\* the thread of connection c is in conn.recv
InRecv(c) == ProcessAlive /\ thread[c].st = "running" /\ holder # c

\* conn.recv returns the next message of a client that is still there
Reading(c) == InRecv(c) /\ peer[c] = "open"

\* recv returned b"" or raised: the loop is left for the finally block
RecvEOF(c) ==
    /\ InRecv(c) /\ peer[c] = "closed"
    /\ thread' = [thread EXCEPT ![c].st = "closing"]
    /\ ev' = [op |-> "recv_eof"]
    /\ UNCHANGED <<worldVars, registryVars, mainVars, lock, holder, now, conn_cap, quantum, sent,
                   peer, msgs, tickVars>>

\* pickle.loads raised: except: continue, before the lock is taken
RecvUndecodable(c) ==
    /\ Reading(c)
    /\ ev' = [op |-> "undecodable"]
    /\ UNCHANGED <<worldVars, registryVars, mainVars, lock, holder, now, conn_cap, quantum, sent,
                   connVars, tickVars>>

\* a message decoded: with lock
HandlerLock(c) ==
    /\ Reading(c) /\ LockFree
    /\ lock' = "client"
    /\ holder' = c
    /\ ev' = [op |-> "handler_lock"]
    /\ UNCHANGED <<worldVars, registryVars, mainVars, now, conn_cap, quantum, sent, connVars, tickVars>>

Locked(c) == ProcessAlive /\ lock = "client" /\ holder = c

\* msg.get raised AttributeError under the lock: the outer except, then finally
RecvNonDict(c) ==
    /\ Locked(c)
    /\ lock' = "free"
    /\ holder' = 0
    /\ thread' = [thread EXCEPT ![c].st = "closing"]
    /\ ev' = [op |-> "nondict_raised"]
    /\ UNCHANGED <<worldVars, registryVars, mainVars, now, conn_cap, quantum, sent,
                   peer, msgs, tickVars>>

NewBullet(pid, m) ==
    [x |-> players[pid].pos[1], y |-> players[pid].pos[2],
     dx |-> m.d[1] * BULLET_SPEED, dy |-> m.d[2] * BULLET_SPEED,
     owner_id |-> pid, vt |-> m.vt]

MovedPos(pid, m) == <<players[pid].pos[1] + m.d[1], players[pid].pos[2] + m.d[2]>>

\* a with-lock block without the test for a dead player
IntentOutcomeDeadActs(m) ==
    LET pid == m.player_id IN
    IF m.action = "move"
    THEN IF pid \in DOMAIN players
         THEN (IF m.vt = "num" THEN "moved" ELSE "raised")
         ELSE "ignored_unknown"
    ELSE IF m.action = "shoot"
         THEN IF pid \in DOMAIN players
              THEN (IF m.vt = "none" THEN "raised" ELSE "shot")
              ELSE "ignored_unknown"
    ELSE "ignored_action"

\* the outcome of the with-lock block of handle_client on the dict m:
\* "ignored_dead", "ignored_unknown", "ignored_action", "moved", "shot", or
\* "raised" (TypeError)
IntentOutcome(m) ==
    LET pid == m.player_id IN
    IF pid \in DOMAIN players /\ players[pid].is_dead THEN "ignored_dead"
    ELSE IF m.action = "move"
         THEN IF pid \in DOMAIN players
              THEN (IF m.vt = "num" THEN "moved" ELSE "raised")
              ELSE "ignored_unknown"
    ELSE IF m.action = "shoot"
         THEN IF pid \in DOMAIN players
              THEN (IF m.vt = "none" THEN "raised" ELSE "shot")
              ELSE "ignored_unknown"
    ELSE "ignored_action"

\* the with-lock block of handle_client on a decoded dict, to the release
RecvIntent(c, m) ==
    /\ Locked(c)
    /\ LET pid == m.player_id
           out == IntentOutcome(m)
       IN /\ out = "moved" => MovedPos(pid, m)[1] <= MaxCoord
          /\ out = "shot" => Len(bullets) < MaxBullets
          /\ players' = IF out = "moved"
                        THEN [players EXCEPT ![pid].pos = MovedPos(pid, m)]
                        ELSE players
          /\ bullets' = IF out = "shot"
                        THEN Append(bullets, NewBullet(pid, m))
                        ELSE bullets
          /\ thread' = IF out = "raised"
                       THEN [thread EXCEPT ![c].st = "closing"]
                       ELSE thread
          /\ ev' = [op |-> out]
    /\ lock' = "free"
    /\ holder' = 0
    /\ UNCHANGED <<registryVars, mainVars, now, conn_cap, quantum, sent, peer, msgs, tickVars>>

\* the finally block of handle_client
Teardown(c) ==
    /\ ProcessAlive /\ thread[c].st = "closing" /\ LockFree
    /\ LET player_id == thread[c].player_id IN
       /\ players' = IF player_id \in DOMAIN players
                     THEN DictDel(players, player_id) ELSE players
       /\ client_sockets' = IF InList(client_sockets, c)
                            THEN ListRemove(client_sockets, c) ELSE client_sockets
       /\ player_connections' = IF player_id \in DOMAIN player_connections
                                THEN DictDel(player_connections, player_id)
                                ELSE player_connections
    /\ peer' = [peer EXCEPT ![c] = "closed"]
    /\ thread' = [thread EXCEPT ![c].st = "done"]
    /\ ev' = [op |-> "teardown"]
    /\ UNCHANGED <<bullets, mainVars, lock, holder, now, conn_cap, quantum, sent, msgs, tickVars>>

\* ---------------------------------------------------------------- game_loop
Moved(b) == [b EXCEPT !.x = @ + b.dx, !.y = @ + b.dy]

\* index of the first bullet whose += raises TypeError, Len + 1 when none does
FirstBad(bs) ==
    IF \E i \in 1..Len(bs) : bs[i].vt # "num"
    THEN Min({i \in 1..Len(bs) : bs[i].vt # "num"})
    ELSE Len(bs) + 1

\* for b in bullets: b["x"] += b["dx"]; b["y"] += b["dy"], as far as it gets
Integrated(bs) == [i \in 1..Len(bs) |-> IF i < FirstBad(bs) THEN Moved(bs[i]) ELSE bs[i]]

InBounds(b) == 0 <= b.x /\ b.x <= ARENA_W /\ 0 <= b.y /\ b.y <= ARENA_H

\* a culling step that keeps every bullet
CulledNothing(bs) == bs

Culled(bs) == SelectSeq(bs, InBounds)

\* game_loop: time.sleep returns, the lock is taken and the bullets are moved
TickIntegrate ==
    /\ ProcessAlive /\ tick_pc = "sleep" /\ LockFree
    /\ now + quantum <= MaxNow
    /\ now' = now + quantum
    /\ bullets' = Integrated(bullets)
    /\ IF FirstBad(bullets) <= Len(bullets)
       THEN /\ tick_pc' = "dead"
            /\ lock' = "free"
            /\ tick_world' = EmptyWorld
            /\ ev' = [op |-> "integrate_raised"]
       ELSE /\ tick_pc' = "cull"
            /\ lock' = "tick"
            /\ tick_world' = [players |-> players, bullets |-> bullets]
            /\ ev' = [op |-> "integrate"]
    /\ UNCHANGED <<players, registryVars, mainVars, holder, conn_cap, quantum, sent,
                   connVars, ci, surviving_bullets>>

\* game_loop: remove out-of-bounds bullets; check_bullet_collisions starts
TickCull ==
    /\ ProcessAlive /\ tick_pc = "cull"
    /\ bullets' = Culled(bullets)
    /\ tick_pc' = "collide"
    /\ ci' = 1
    /\ surviving_bullets' = <<>>
    /\ ev' = [op |-> "cull"]
    /\ UNCHANGED <<players, registryVars, mainVars, lock, holder, now, conn_cap, quantum, sent, connVars,
                   tick_world>>

\* the overlap test of the two bounding boxes
Overlap(b, pdata) ==
    /\ b.x + BULLET_HALF >= pdata.pos[1] - PLAYER_HALF
    /\ b.x - BULLET_HALF <= pdata.pos[1] + PLAYER_HALF
    /\ b.y + BULLET_HALF >= pdata.pos[2] - PLAYER_HALF
    /\ b.y - BULLET_HALF <= pdata.pos[2] + PLAYER_HALF

\* an inner loop that skips the owner only
SkippedOwnerOnly(b, pid, pdata) == pid = b.owner_id

\* the continue of the inner loop: the owner and dead players are skipped
Skipped(b, pid, pdata) == pid = b.owner_id \/ pdata.is_dead

RECURSIVE FirstHit(_, _, _)
\* the inner loop over list(players.items()) up to its break: the player hit,
\* NoPid when the loop ends without a collision
FirstHit(order, b, ps) ==
    IF order = <<>> THEN NoPid
    ELSE IF ~Skipped(b, Head(order), ps[Head(order)]) /\ Overlap(b, ps[Head(order)])
         THEN Head(order)
         ELSE FirstHit(Tail(order), b, ps)

\* a collision branch that clamps the health but forgets the dead flag
DamagedNotMarked(ps, b, v) ==
    LET h == ps[v].health - DAMAGE IN
    IF h <= 0
    THEN LET credited == IF b.owner_id \in DOMAIN ps
                         THEN [ps EXCEPT ![b.owner_id].kills = @ + 1]
                         ELSE ps
         IN [credited EXCEPT ![v].health = 0]
    ELSE [ps EXCEPT ![v].health = h]

\* a collision branch that credits the owner for every hit, lethal or not
DamagedAlwaysCredits(ps, b, v) ==
    LET h == ps[v].health - DAMAGE
        credited == IF b.owner_id \in DOMAIN ps
                    THEN [ps EXCEPT ![b.owner_id].kills = @ + 1]
                    ELSE ps
    IN IF h <= 0
       THEN [credited EXCEPT ![v].is_dead = TRUE, ![v].health = 0]
       ELSE [credited EXCEPT ![v].health = h]

\* a collision branch that puts a killed victim back at full health
DamagedRespawns(ps, b, v) ==
    LET h == ps[v].health - DAMAGE IN
    IF h <= 0
    THEN LET credited == IF b.owner_id \in DOMAIN ps
                         THEN [ps EXCEPT ![b.owner_id].kills = @ + 1]
                         ELSE ps
         IN [credited EXCEPT ![v].is_dead = FALSE, ![v].health = FULL_HEALTH]
    ELSE [ps EXCEPT ![v].health = h]

\* the body of the collision branch on victim v
Damaged(ps, b, v) ==
    LET h == ps[v].health - DAMAGE IN
    IF h <= 0
    THEN LET credited == IF b.owner_id \in DOMAIN ps
                         THEN [ps EXCEPT ![b.owner_id].kills = @ + 1]
                         ELSE ps
         IN [credited EXCEPT ![v].is_dead = TRUE, ![v].health = 0]
    ELSE [ps EXCEPT ![v].health = h]

\* check_bullet_collisions: one iteration of the outer loop
TickCollideStep ==
    /\ ProcessAlive /\ tick_pc = "collide" /\ ci <= Len(bullets)
    /\ LET b == bullets[ci]
           v == FirstHit(items(players), b, players)
       IN IF v # NoPid
          THEN /\ players' = Damaged(players, b, v)
               /\ surviving_bullets' = surviving_bullets
               /\ ev' = [op |-> "hit", victim |-> v, owner |-> b.owner_id,
                          killed |-> players[v].health - DAMAGE <= 0]
          ELSE /\ players' = players
               /\ surviving_bullets' = Append(surviving_bullets, b)
               /\ ev' = [op |-> "miss"]
    /\ ci' = ci + 1
    /\ UNCHANGED <<bullets, registryVars, mainVars, lock, holder, now, conn_cap, quantum, sent, connVars,
                   tick_pc, tick_world>>

\* check_bullet_collisions: bullets = surviving_bullets
TickCollideEnd ==
    /\ ProcessAlive /\ tick_pc = "collide" /\ ci > Len(bullets)
    /\ bullets' = surviving_bullets
    /\ surviving_bullets' = <<>>
    /\ ci' = 0
    /\ tick_pc' = "broadcast"
    /\ ev' = [op |-> "collide_end"]
    /\ UNCHANGED <<players, registryVars, mainVars, lock, holder, now, conn_cap, quantum, sent, connVars,
                   tick_world>>

\* a time_left without the floor at 0
TimeLeftUnfloored ==
    IF game_start_time # NoTime
    THEN GAME_DURATION - (now - game_start_time)
    ELSE GAME_DURATION

\* max(0, GAME_DURATION - elapsed), GAME_DURATION before the timer starts
TimeLeft ==
    IF game_start_time # NoTime
    THEN (IF GAME_DURATION - (now - game_start_time) > 0
          THEN GAME_DURATION - (now - game_start_time) ELSE 0)
    ELSE GAME_DURATION

GameState == [players |-> players, bullets |-> bullets, time_left |-> TimeLeft]

\* the channels of client_sockets whose client is gone: sendall to them may raise
Unreachable == {c \in Conns : InList(client_sockets, c) /\ peer[c] = "closed"}

\* a send loop that gives up at the first sendall that raises
SendsUntilFailure(failed) ==
    LET bad == {i \in 1..Len(client_sockets) : client_sockets[i] \in failed}
        n == IF bad = {} THEN Len(client_sockets) ELSE Min(bad)
    IN [i \in 1..n |-> [to |-> client_sockets[i], ok |-> client_sockets[i] \notin failed]]

\* for cs in client_sockets: try: cs.sendall(data) except: pass, with sendall
\* raising on the channels of failed
Sends(failed) ==
    [i \in 1..Len(client_sockets) |->
        [to |-> client_sockets[i], ok |-> client_sockets[i] \notin failed]]

\* broadcast_game_state, then the lock is released and the loop sleeps
TickBroadcast ==
    /\ ProcessAlive /\ tick_pc = "broadcast"
    /\ tick_pc' = "sleep"
    /\ lock' = "free"
    /\ tick_world' = EmptyWorld
    /\ \E failed \in SUBSET Unreachable :
          ev' = [op |-> "broadcast", game_state |-> GameState, sends |-> Sends(failed),
                 tick_start |-> tick_world]
    /\ sent' = [time_left |-> TimeLeft, started |-> game_start_time # NoTime]
    /\ UNCHANGED <<worldVars, registryVars, mainVars, holder, now, conn_cap, quantum,
                   connVars, ci, surviving_bullets>>

\* ------------------------------------------------------------ specifications
Tick ==
    \/ TickIntegrate
    \/ TickCull
    \/ TickCollideStep
    \/ TickCollideEnd
    \/ TickBroadcast

\* the server with every kind of client message, below capacity
Next ==
    \/ Admit
    \/ \E fails \in BOOLEAN : Handshake(fails)
    \/ StartThread
    \/ \E c \in Conns : PeerClose(c)
    \/ \E c \in Conns : RecvEOF(c)
    \/ \E c \in Conns : RecvUndecodable(c)
    \/ \E c \in Conns : HandlerLock(c)
    \/ \E c \in Conns : RecvNonDict(c)
    \/ \E c \in Conns : \E m \in WellTyped \cup Malformed : RecvIntent(c, m)
    \/ \E c \in Conns : Teardown(c)
    \/ Tick

Init == InitWith(MaxConns)

Spec == Init /\ [][Next]_vars

\* three clients that stay connected and send well-typed intents
NextCombat ==
    \/ Admit
    \/ Handshake(FALSE)
    \/ StartThread
    \/ \E c \in Conns : HandlerLock(c)
    \/ \E c \in Conns : \E m \in WellTyped : RecvIntent(c, m)
    \/ Tick

InitCombat == InitWith(MaxCombatConns)

SpecCombat == InitCombat /\ [][NextCombat]_vars

\* the connection manager up to and beyond capacity, with clients that send
\* no intents
TickIdle ==
    \/ TickIntegrate
    \/ TickCull
    \/ TickCollideEnd
    \/ TickBroadcast

NextAdmit ==
    \/ Admit
    \/ \E gone, fails \in BOOLEAN : Reject(gone, fails)
    \/ \E fails \in BOOLEAN : Handshake(fails)
    \/ StartThread
    \/ \E c \in Conns : PeerClose(c)
    \/ \E c \in Conns : RecvEOF(c)
    \/ \E c \in Conns : Teardown(c)
    \/ TickIdle

InitAdmit == InitWith(MaxAdmitConns)

SpecAdmit == InitAdmit /\ [][NextAdmit]_vars

\* the connection manager with clients that connect and go away, the server's
\* threads scheduled fairly: every step of main, of a handler and of the tick
\* is taken when it stays possible, and a thread waiting for the lock gets it
NextLive ==
    \/ Admit
    \/ \E fails \in BOOLEAN : Handshake(fails)
    \/ StartThread
    \/ \E c \in Conns : PeerClose(c)
    \/ \E c \in Conns : RecvEOF(c)
    \/ \E c \in Conns : Teardown(c)
    \/ TickIdle

InitLive == InitWith(MaxLiveConns)

ServerFair ==
    /\ WF_vars(Admit)
    /\ WF_vars(\E fails \in BOOLEAN : Handshake(fails))
    /\ WF_vars(StartThread)
    /\ WF_vars(TickIdle)
    /\ \A c \in 1..MaxLiveConns : WF_vars(RecvEOF(c)) /\ SF_vars(Teardown(c))

SpecLive == InitLive /\ [][NextLive]_vars /\ ServerFair

\* the connection manager and the idle tick with a clock that advances by
\* ClockQuantum over every sleep, with clients that connect and go away
NextClock ==
    \/ Admit
    \/ Handshake(FALSE)
    \/ StartThread
    \/ \E c \in Conns : PeerClose(c)
    \/ \E c \in Conns : RecvEOF(c)
    \/ \E c \in Conns : Teardown(c)
    \/ TickIdle

InitClock == InitAt(MaxClockConns, ClockQuantum)

SpecClock == InitClock /\ [][NextClock]_vars

\* two clients that stay connected and shoot at each other: player 0 walks
\* to the right and shoots to the left, player 1 stays and shoots to the right
DuelIntents ==
    [action : {"move"}, player_id : {0}, d : Deltas, vt : {"num"}]
    \cup [action : {"shoot"}, player_id : {0}, d : {<<-41, 0>>}, vt : {"num"}]
    \cup [action : {"shoot"}, player_id : {1}, d : Dirs, vt : {"num"}]

NextDuel ==
    \/ Admit
    \/ Handshake(FALSE)
    \/ StartThread
    \/ \E c \in Conns : HandlerLock(c)
    \/ \E c \in Conns : \E m \in DuelIntents : RecvIntent(c, m)
    \/ Tick

InitDuel == InitWith(MaxDuelConns)

SpecDuel == InitDuel /\ [][NextDuel]_vars

\* one client that stays connected and shoots, for its player or for an id
\* the server does not know, also with the direction (0, 0) that client.py
\* sends when the aim point is the player's position, under a fair scheduler
AimIntents ==
    [action : {"shoot"}, player_id : {0, UnknownPid}, d : Dirs \cup {<<0, 0>>},
     vt : {"num"}]

AimSection == \E c \in Conns : \E m \in AimIntents : RecvIntent(c, m)

NextAim ==
    \/ Admit
    \/ Handshake(FALSE)
    \/ StartThread
    \/ \E c \in Conns : HandlerLock(c)
    \/ AimSection
    \/ Tick

AimFair == SF_vars(Tick) /\ WF_vars(AimSection)

InitAim == InitWith(MaxTickConns)

SpecAim == InitAim /\ [][NextAim]_vars /\ AimFair

\* the server with every kind of client message, sends to main's clients
\* that succeed, and a fair scheduler: the
\* tick thread gets the lock when it keeps asking for it and then runs on,
\* and a handler that holds the lock finishes its section
HandlerSection ==
    \E c \in Conns : RecvNonDict(c) \/ \E m \in WellTyped \cup Malformed : RecvIntent(c, m)

NextTick ==
    \/ Admit
    \/ Handshake(FALSE)
    \/ StartThread
    \/ \E c \in Conns : PeerClose(c)
    \/ \E c \in Conns : RecvEOF(c)
    \/ \E c \in Conns : RecvUndecodable(c)
    \/ \E c \in Conns : HandlerLock(c)
    \/ HandlerSection
    \/ \E c \in Conns : Teardown(c)
    \/ Tick

InitTick == InitWith(MaxTickConns)

TickFair == SF_vars(Tick) /\ WF_vars(HandlerSection)

SpecTick == InitTick /\ [][NextTick]_vars /\ TickFair

\* =================================================================== claims

\* the collision pass over a whole bullet list as a function of the world it
\* starts from: <<players after the pass, bullets that survive it>>
RECURSIVE PassResult(_, _, _)
PassResult(ps, bs, kept) ==
    IF bs = <<>> THEN <<ps, kept>>
    ELSE LET v == FirstHit(items(ps), Head(bs), ps) IN
         IF v # NoPid
         THEN PassResult(Damaged(ps, Head(bs), v), Tail(bs), kept)
         ELSE PassResult(ps, Tail(bs), Append(kept, Head(bs)))

TickResult(w) == PassResult(w.players, Culled(Integrated(w.bullets)), <<>>)

\* a step of game_loop: it moves tick_pc or the collision loop's index
TickStep == tick_pc' # tick_pc \/ ci' # ci

SharedChanged ==
    \/ players' # players
    \/ bullets' # bullets
    \/ client_sockets' # client_sockets
    \/ player_connections' # player_connections
    \/ next_player_id' # next_player_id

\* the order of the steps of a tick, or the end of game_loop by an exception
\* in the integration
TickOrder ==
    {<<"sleep", "cull">>, <<"cull", "collide">>, <<"collide", "broadcast">>,
     <<"broadcast", "sleep">>, <<"sleep", "dead">>}

\* C1: a tick is atomic with respect to the world: its steps run in the
\* order integration, culling, collision, broadcast; while the tick holds the
\* lock nothing but the tick changes players, bullets or the registry; the
\* snapshot broadcast is the world the tick started from after integration,
\* culling and collision; and while a client thread holds the lock for an
\* intent, nothing but that one intent application changes them.
C1_TickAtomic ==
    [][ /\ tick_pc' # tick_pc => <<tick_pc, tick_pc'>> \in TickOrder
        /\ (lock = "tick" /\ SharedChanged) => TickStep
        /\ lock = "tick" => lock' = "tick" \/ (tick_pc = "broadcast" /\ tick_pc' = "sleep")
        /\ (tick_pc = "broadcast" /\ tick_pc' = "sleep") =>
              /\ ev'.op = "broadcast"
              /\ ev'.game_state.players = players
              /\ ev'.game_state.bullets = bullets
              /\ <<players, bullets>> = TickResult(tick_world)
        /\ lock = "client" =>
              /\ ~TickStep
              /\ client_sockets' = client_sockets
              /\ player_connections' = player_connections
              /\ next_player_id' = next_player_id
              /\ (players' # players \/ bullets' # bullets) => lock' = "free"
      ]_vars

\* C1 witness: a snapshot is broadcast by a tick that moved a bullet and
\* resolved a collision while a client thread was waiting to take the lock
C1_Witness ==
    /\ ev.op = "broadcast"
    /\ Len(ev.tick_start.bullets) > 0
    /\ ev.game_state.players # ev.tick_start.players
    /\ \E c \in Conns : Reading(c)

\* a connection is accepted while the player map is at capacity
ArrivalAtCapacity ==
    next_conn' = next_conn + 1 /\ Cardinality(DOMAIN players) >= MAX_PLAYERS

\* C2: the player map never holds more than MAX_PLAYERS players; a
\* connection accepted while it holds MAX_PLAYERS adds no player, no registry
\* entry and no thread, gets no handshake and is closed; it is sent
\* server_full exactly once (not at all when its client is already gone and
\* sendall raises), and never becomes a registered channel.
C2_Capacity ==
    /\ [](Cardinality(DOMAIN players) <= MAX_PLAYERS)
    /\ [](\A c \in Conns :
             /\ msgs[c].full <= 1
             /\ msgs[c].full = 1 =>
                   /\ ~InList(client_sockets, c)
                   /\ \A p \in DOMAIN player_connections : player_connections[p] # c
                   /\ thread[c].st = "none"
                   /\ msgs[c].handshake = 0)
    /\ [][ ArrivalAtCapacity =>
              /\ players' = players
              /\ client_sockets' = client_sockets
              /\ player_connections' = player_connections
              /\ next_player_id' = next_player_id
              /\ thread' = thread
              /\ peer'[next_conn'] = "closed"
              /\ msgs'[next_conn'].handshake = 0
              /\ msgs'[next_conn'].full = (IF main_pc' = "dead" THEN 0 ELSE 1)
         ]_vars

\* C2 witness: with MAX_PLAYERS players registered the next connection has
\* just been refused with one server_full
C2_Witness ==
    /\ Cardinality(DOMAIN players) = MAX_PLAYERS
    /\ ev.op = "reject"
    /\ msgs[next_conn].full = 1
    /\ thread[next_conn].st = "none"

\* C3: whenever the tick does not hold the lock, every player of the store
\* has a health in 0..FULL_HEALTH and is dead exactly when its health is 0;
\* an admission stores the new player with health 100, kills 0 and is_dead
\* false.
C3_HealthRange ==
    /\ [](lock # "tick" =>
             \A p \in DOMAIN players :
                /\ players[p].health \in 0..FULL_HEALTH
                /\ players[p].is_dead <=> players[p].health = 0)
    /\ [][ next_player_id' # next_player_id =>
              /\ next_player_id \notin DOMAIN players
              /\ next_player_id \in DOMAIN players'
              /\ players'[next_player_id].health = 100
              /\ players'[next_player_id].kills = 0
              /\ players'[next_player_id].is_dead = FALSE
         ]_vars

\* C3 witness: outside the lock the store holds a player killed by bullets
\* next to one admitted and never hit
C3_Witness ==
    /\ lock # "tick"
    /\ \E p, q \in DOMAIN players :
          /\ players[p].is_dead /\ players[p].health = 0
          /\ ~players[q].is_dead /\ players[q].health = FULL_HEALTH

\* one iteration of the collision pass changed the player map: a hit
HitStep == tick_pc = "collide" /\ ci' = ci + 1 /\ players' # players

\* C4: a hit lowers exactly one player's health by 25; when that reaches 0 or
\* less the health is 0, the victim is dead and the bullet's owner, if still
\* in the store, gains exactly one kill; otherwise no kills change; nothing
\* else of any player changes; the bullet is not kept among the survivors,
\* and the survivors become the live list at the end of the pass.
C4_HitEffect ==
    /\ [][ HitStep =>
              /\ DOMAIN players' = DOMAIN players
              /\ surviving_bullets' = surviving_bullets
              /\ \E v \in DOMAIN players :
                    LET h == players[v].health - 25
                        owner == bullets[ci].owner_id
                    IN /\ players'[v].health = (IF h <= 0 THEN 0 ELSE h)
                       /\ players'[v].is_dead = (h <= 0)
                       /\ \A q \in DOMAIN players :
                             /\ players'[q].kills = players[q].kills
                                   + (IF h <= 0 /\ q = owner THEN 1 ELSE 0)
                             /\ players'[q].pos = players[q].pos
                             /\ q # v => /\ players'[q].health = players[q].health
                                         /\ players'[q].is_dead = players[q].is_dead
         ]_vars
    /\ [][ (tick_pc = "collide" /\ tick_pc' # "collide") =>
              bullets' = surviving_bullets ]_vars

\* C4 witness: a bullet has just killed a player after its owner left the
\* store, and is not among the survivors
C4_Witness ==
    /\ ev.op = "hit" /\ ev.killed
    /\ ev.owner \notin DOMAIN players
    /\ players[ev.victim].is_dead
    /\ surviving_bullets = <<>>

\* a lethal hit whose owner is present has been credited
C4_Credited ==
    /\ ev.op = "hit" /\ ev.killed
    /\ ev.owner \in DOMAIN players
    /\ players[ev.owner].kills = 1

\* the players a bullet may hit: alive, not its owner, boxes overlapping
Eligible(b) ==
    {p \in DOMAIN players :
        /\ p # b.owner_id
        /\ ~players[p].is_dead
        /\ b.x + 4 >= players[p].pos[1] - 10 /\ b.x - 4 <= players[p].pos[1] + 10
        /\ b.y + 4 >= players[p].pos[2] - 10 /\ b.y - 4 <= players[p].pos[2] + 10}

\* the players whose health an iteration of the pass changes
DamagedBy == {p \in DOMAIN players : players'[p].health # players[p].health}

\* C5: the iteration of the collision pass for one bullet changes the health
\* of at most one player, and only of the first player in the map's order
\* (increasing id) that is alive at that moment, is not the bullet's owner
\* and overlaps it; no dead flag changes without such a hit; the bullet is
\* kept among the survivors exactly when there is no such player, and the
\* survivors are the live list after the pass.
C5_OneHitPerBullet ==
    /\ [][ (tick_pc = "collide" /\ ci' = ci + 1) =>
              LET b == bullets[ci]
                  E == Eligible(b)
              IN /\ DOMAIN players' = DOMAIN players
                 /\ DamagedBy = (IF E = {} THEN {} ELSE {Min(E)})
                 /\ \A p \in DOMAIN players :
                       players'[p].is_dead # players[p].is_dead => p \in DamagedBy
                 /\ E = {} => players' = players
                 /\ surviving_bullets' = (IF E = {} THEN Append(surviving_bullets, b)
                                          ELSE surviving_bullets)
         ]_vars
    /\ [][ (tick_pc = "collide" /\ ci' = 0) => bullets' = surviving_bullets ]_vars

\* C5 witness: a bullet has just hit a player that stands behind, in the
\* map's order, one at the same position that is not its owner and was killed
\* by an earlier bullet of the same pass
C5_Witness ==
    /\ ev.op = "hit" /\ tick_pc = "collide"
    /\ \E p \in DOMAIN players :
          /\ p < ev.victim /\ p # ev.owner
          /\ players[p].pos = players[ev.victim].pos
          /\ players[p].is_dead
          /\ ~tick_world.players[p].is_dead

\* C6: no broadcast snapshot holds a bullet outside the closed rectangle
\* [0,800] x [0,600], whatever the position its shooter stood at.
C6_SnapshotInArena ==
    ev.op = "broadcast" =>
        \A i \in 1..Len(ev.game_state.bullets) :
            LET b == ev.game_state.bullets[i]
            IN 0 <= b.x /\ b.x <= 800 /\ 0 <= b.y /\ b.y <= 600

\* C6 witness: a snapshot has been broadcast by a tick that started with a
\* bullet spawned outside the arena, at the position of its shooter
C6_Witness ==
    /\ ev.op = "broadcast"
    /\ \E i \in 1..Len(ev.tick_start.bullets) :
          LET b == ev.tick_start.bullets[i]
          IN /\ b.x > 800
             /\ b.owner_id \in DOMAIN ev.tick_start.players
             /\ ev.tick_start.players[b.owner_id].pos = <<b.x, b.y>>

\* the tick leaves its sleep and runs the integration loop
IntegrationStep == tick_pc = "sleep" /\ tick_pc' # "sleep"

\* C7: the integration loop of a tick moves every bullet of the live list
\* that has a numeric velocity by that velocity, once, and no other step
\* changes the position of a bullet that stays in the list.
C7_IntegratedOnce ==
    /\ [][ IntegrationStep =>
              /\ Len(bullets') = Len(bullets)
              /\ \A i \in 1..Len(bullets) :
                    bullets[i].vt = "num" =>
                       /\ bullets'[i].x = bullets[i].x + bullets[i].dx
                       /\ bullets'[i].y = bullets[i].y + bullets[i].dy
         ]_vars
    /\ [][ (~IntegrationStep /\ tick_pc' = tick_pc /\ lock # "tick") =>
              \A i \in 1..Len(bullets) :
                  /\ i <= Len(bullets')
                  /\ bullets'[i] = bullets[i]
         ]_vars

\* the player named by intent m is not in the store, or is dead
NoLivePlayer(m) ==
    m.player_id \notin DOMAIN players \/ players[m.player_id].is_dead

\* C8: applying a move or shoot intent that names a player absent from the
\* store, or a dead one, changes neither players nor bullets, and the thread
\* that read it keeps running with its connection and registration as before.
C8_InvalidIntentNoOp ==
    [][ \A c \in Conns : \A m \in WellTyped \cup Malformed :
           (NoLivePlayer(m) /\ RecvIntent(c, m)) =>
              /\ players' = players
              /\ bullets' = bullets
              /\ thread' = thread
              /\ thread'[c].st = "running"
              /\ peer' = peer
              /\ client_sockets' = client_sockets
              /\ player_connections' = player_connections
      ]_vars

\* C8 witness: a handler has just dropped the intent of a dead player and is
\* back in recv
C8_Witness ==
    /\ ev.op = "ignored_dead"
    /\ \E c \in Conns : Reading(c)
    /\ \E p \in DOMAIN players : players[p].is_dead

\* a handler has just dropped an intent that names no player of the store
C8_UnknownDropped ==
    /\ ev.op = "ignored_unknown"
    /\ \E c \in Conns : Reading(c)

\* connection c has just handed the server a message that is undecodable,
\* is no dict, or is a dict with fields of the wrong type
MalformedReceived(c) ==
    \/ RecvUndecodable(c)
    \/ RecvNonDict(c)
    \/ \E m \in Malformed : RecvIntent(c, m)

\* C9: a message that does not decode, is no intent record or has malformed
\* fields changes neither players nor bullets, leaves the registry as it
\* is, and the thread that received it keeps reading its connection.
C9_MalformedDiscarded ==
    [][ \A c \in Conns :
           MalformedReceived(c) =>
              /\ players' = players
              /\ bullets' = bullets
              /\ client_sockets' = client_sockets
              /\ player_connections' = player_connections
              /\ thread'[c].st = "running"
      ]_vars

\* every socket of client_sockets is the channel of a registered player
NoOrphanSocket ==
    \A i \in 1..Len(client_sockets) :
        \E q \in DOMAIN player_connections : player_connections[q] = client_sockets[i]

\* C10: once the connection of an admitted player has terminated, the player
\* eventually is in neither players nor player_connections and its socket is
\* no longer in client_sockets.
C10_EventuallyRemoved ==
    \A p \in 0..(MaxLiveConns - 1) :
        (/\ p \in DOMAIN players
         /\ p \in DOMAIN player_connections
         /\ peer[player_connections[p]] = "closed")
        ~> (/\ p \notin DOMAIN players
            /\ p \notin DOMAIN player_connections
            /\ NoOrphanSocket)

\* the ids handed out so far whose player is no longer in the store
RemovedPids == {p \in 0..(next_player_id - 1) : p \notin DOMAIN players}

\* C11: a broadcast snapshot names no player that has been removed from the
\* store: not as a key of its players map and not as the owner_id of one of
\* its bullets.
C11_NoRemovedIdentity ==
    ev.op = "broadcast" =>
        \A p \in RemovedPids :
            /\ p \notin DOMAIN ev.game_state.players
            /\ \A i \in 1..Len(ev.game_state.bullets) :
                  ev.game_state.bullets[i].owner_id # p

\* the tick runs broadcast_game_state
BroadcastStep == tick_pc = "broadcast" /\ tick_pc' # "broadcast"

\* C12: the broadcast of a tick attempts one send per entry of client_sockets,
\* in order, whether or not an earlier send failed; client_sockets holds no
\* channel twice and only channels of players that are in the store; the
\* broadcast leaves the store and the registry as they are, and the tick
\* goes on to release the lock and sleep.
C12_BroadcastToAll ==
    [][ BroadcastStep =>
           /\ ev'.op = "broadcast"
           /\ Len(ev'.sends) = Len(client_sockets)
           /\ \A i \in 1..Len(client_sockets) :
                 /\ ev'.sends[i].to = client_sockets[i]
                 /\ \A j \in 1..Len(client_sockets) :
                       client_sockets[i] = client_sockets[j] => i = j
                 /\ \E p \in DOMAIN players :
                       /\ p \in DOMAIN player_connections
                       /\ player_connections[p] = client_sockets[i]
           /\ client_sockets' = client_sockets
           /\ player_connections' = player_connections
           /\ players' = players
           /\ tick_pc' = "sleep"
           /\ lock' = "free"
      ]_vars

\* C12 witness: in a broadcast the send to one channel failed and the send to
\* a later channel succeeded, after another player had been removed
C12_Witness ==
    /\ ev.op = "broadcast"
    /\ RemovedPids # {}
    /\ \E i, j \in 1..Len(ev.sends) : i < j /\ ~ev.sends[i].ok /\ ev.sends[j].ok
    /\ Len(client_sockets) = Len(ev.sends)

\* main has run one of its two sendall calls and the message was not sent
MainSendFailed ==
    \/ main_pc = "handshake" /\ main_pc' # "handshake" /\ msgs' = msgs
    \/ ArrivalAtCapacity /\ msgs' = msgs

\* C13: when the send of server_full or of the handshake fails, the main
\* thread goes back to accept and the process with its tick thread lives on.
C13_SendFailureNotFatal ==
    [][ MainSendFailed => main_pc' = "accept" /\ ProcessAlive' ]_vars

C15_TimeLeft ==
    /\ [](ev.op = "broadcast" =>
             /\ ev.game_state.time_left >= 0
             /\ game_start_time = NoTime => ev.game_state.time_left = 300)
    /\ [][ BroadcastStep =>
              /\ sent'.time_left = ev'.game_state.time_left
              /\ sent.started =>
                    IF sent.time_left > 0
                    THEN ev'.game_state.time_left < sent.time_left
                    ELSE ev'.game_state.time_left = 0
         ]_vars

\* C15 witness: a snapshot with time_left 0 has been sent more than 300
\* seconds after the start, when the one before it was 0 already
C15_Witness ==
    /\ ev.op = "broadcast"
    /\ ev.game_state.time_left = 0
    /\ game_start_time # NoTime
    /\ now - game_start_time > GAME_DURATION
    /\ now - quantum - game_start_time >= GAME_DURATION

\* C16: the lock section of the handler of connection c, whose player is P,
\* changes no player but P, changes of P only the position, appends at most
\* one bullet, owned by P and placed at P's position, and changes nothing
\* when P is dead.
C16_OwnPlayerOnly ==
    [][ \A c \in Conns :
           (lock = "client" /\ holder = c /\ lock' = "free") =>
              LET P == thread[c].player_id IN
              /\ DOMAIN players' = DOMAIN players
              /\ \A q \in DOMAIN players : q # P => players'[q] = players[q]
              /\ bullets' # bullets =>
                    /\ Len(bullets') = Len(bullets) + 1
                    /\ bullets'[Len(bullets')].owner_id = P
                    /\ P \in DOMAIN players
                    /\ bullets'[Len(bullets')].x = players[P].pos[1]
                    /\ bullets'[Len(bullets')].y = players[P].pos[2]
              /\ (P \in DOMAIN players /\ players[P].is_dead) =>
                    players' = players /\ bullets' = bullets
      ]_vars

\* C17: the tick reaches its broadcast again and again, whatever clients send
\* and whichever sends fail.
C17_TickForever == []<>(tick_pc = "broadcast")

C18_DeadStays ==
    /\ ev.op = "ignored_dead"
    /\ \E p \in DOMAIN players :
          players[p].is_dead /\ players[p].pos # <<SPAWN_X, SPAWN_Y>>

\* C19: a broadcast sends a snapshot only to channels whose handshake has
\* been sent.
C19_HandshakeFirst ==
    [][ BroadcastStep =>
           \A i \in 1..Len(ev'.sends) : msgs[ev'.sends[i].to].handshake >= 1
      ]_vars

\* the tick removes the oldest bullet, the head of the live list: the cull
\* drops it, or the first iteration of the collision pass does not keep it
HeadRemoved ==
    \/ /\ tick_pc = "cull" /\ tick_pc' = "collide"
       /\ bullets # <<>>
       /\ ~(0 <= bullets[1].x /\ bullets[1].x <= 800 /\ 0 <= bullets[1].y /\ bullets[1].y <= 600)
    \/ /\ tick_pc = "collide" /\ ci = 1 /\ ci' = 2
       /\ surviving_bullets' = <<>>

\* C20: every bullet of the live list is eventually removed from it. The
\* list is appended to at its end and keeps its order, so this is: the list
\* is empty again and again, or its head is removed again and again.
C20_BulletsLeave ==
    []<>(bullets = <<>>) \/ []<><<HeadRemoved>>_vars

====
